---- MODULE Spec2Model ----
(***************************************************************************)
(* Model of mu::notation::Notation (src/mu4/notation/internal/notation.cpp) *)
(* The orchestrator owns a score handle, an observable "opened" flag, a    *)
(* view size, and republishes its sub-components' change signals as one    *)
(* notationChanged notification.  Every call the orchestrator makes on a   *)
(* collaborator (score engine, painter, notification channels) is logged   *)
(* in `calls`, which holds the calls of the most recent operation.         *)
(***************************************************************************)
EXTENDS Integers, Sequences, FiniteSets, TLC

VARIABLES
    m_score,     \* Ms::Score* m_score: NullScore or the attached score's state
    m_opened,    \* ValCh<bool> m_opened
    m_viewSize,  \* QSizeF m_viewSize
    lastOp,      \* the last operation invoked on the Notation, with its argument
    calls,       \* calls made on collaborators by the last operation, in order
    ret,         \* value returned by the last operation
    written,     \* the Meta last passed to setMetaInfo on the attached score
    crashed      \* the process was terminated by an invalid memory access

vars == <<m_score, m_opened, m_viewSize, lastOp, calls, ret, written, crashed>>

-----------------------------------------------------------------------------
(* Bounds of the model *)

MaxPages == 3
MaxCoord == 3

-----------------------------------------------------------------------------
(* QString: a sequence of one-character strings *)

EmptyStr == <<>>

Digits == {"0", "1", "2", "3", "4", "5", "6", "7", "8", "9"}

DigitVal(c) ==
    CASE c = "0" -> 0 [] c = "1" -> 1 [] c = "2" -> 2 [] c = "3" -> 3
      [] c = "4" -> 4 [] c = "5" -> 5 [] c = "6" -> 6 [] c = "7" -> 7
      [] c = "8" -> 8 [] c = "9" -> 9

DigitChar(n) ==
    CASE n = 0 -> "0" [] n = 1 -> "1" [] n = 2 -> "2" [] n = 3 -> "3"
      [] n = 4 -> "4" [] n = 5 -> "5" [] n = 6 -> "6" [] n = 7 -> "7"
      [] n = 8 -> "8" [] n = 9 -> "9"

\* QString::number(n) for n >= 0
RECURSIVE NumberToString(_)
NumberToString(n) ==
    IF n < 10 THEN <<DigitChar(n)>>
    ELSE NumberToString(n \div 10) \o <<DigitChar(n % 10)>>

\* QString::toInt(): the decimal value, 0 when the text is not a number
RECURSIVE DigitsToInt(_)
DigitsToInt(s) ==
    IF s = <<>> THEN 0
    ELSE 10 * DigitsToInt(SubSeq(s, 1, Len(s) - 1)) + DigitVal(s[Len(s)])

ToInt(s) ==
    IF s # <<>> /\ \A i \in 1..Len(s) : s[i] \in Digits THEN DigitsToInt(s) ELSE 0

\* QString::mid(pos, n), 0-based
Mid(s, pos, n) == SubSeq(s, pos + 1, pos + n)

-----------------------------------------------------------------------------
(* QDate *)

InvalidDate == [valid |-> FALSE, y |-> 0, m |-> 0, d |-> 0]

IsLeap(y) == (y % 4 = 0 /\ y % 100 # 0) \/ y % 400 = 0

DaysInMonth(y, m) ==
    CASE m \in {1, 3, 5, 7, 8, 10, 12} -> 31
      [] m \in {4, 6, 9, 11} -> 30
      [] m = 2 -> IF IsLeap(y) THEN 29 ELSE 28
      [] OTHER -> 0

\* QDate(y, m, d): invalid unless the day exists
MkDate(y, m, d) ==
    IF m \in 1..12 /\ d >= 1 /\ d <= DaysInMonth(y, m)
    THEN [valid |-> TRUE, y |-> y, m |-> m, d |-> d]
    ELSE InvalidDate

\* QDate::dayOfWeek(): 1 = Monday .. 7 = Sunday
DayOfWeek(date) ==
    LET t  == <<0, 3, 2, 5, 0, 3, 5, 1, 4, 6, 2, 4>>
        yy == IF date.m < 3 THEN date.y - 1 ELSE date.y
        w  == (yy + yy \div 4 - yy \div 100 + yy \div 400 + t[date.m] + date.d) % 7
    IN  IF w = 0 THEN 7 ELSE w

ShortDayName ==
    << <<"M","o","n">>, <<"T","u","e">>, <<"W","e","d">>, <<"T","h","u">>,
       <<"F","r","i">>, <<"S","a","t">>, <<"S","u","n">> >>

ShortMonthName ==
    << <<"J","a","n">>, <<"F","e","b">>, <<"M","a","r">>, <<"A","p","r">>,
       <<"M","a","y">>, <<"J","u","n">>, <<"J","u","l">>, <<"A","u","g">>,
       <<"S","e","p">>, <<"O","c","t">>, <<"N","o","v">>, <<"D","e","c">> >>

Pad2(n) == IF n < 10 THEN <<"0">> \o NumberToString(n) ELSE NumberToString(n)

\* QDate::toString(Qt::ISODate): "yyyy-MM-dd" (years of four digits)
DateToIsoString(date) ==
    IF ~date.valid THEN EmptyStr
    ELSE NumberToString(date.y) \o <<"-">> \o Pad2(date.m) \o <<"-">> \o Pad2(date.d)

\* QDate::toString(), i.e. Qt::TextDate: "ddd MMM d yyyy"
DateToString(date) ==
    IF ~date.valid THEN EmptyStr
    ELSE ShortDayName[DayOfWeek(date)] \o <<" ">> \o ShortMonthName[date.m] \o <<" ">>
         \o NumberToString(date.d) \o <<" ">> \o NumberToString(date.y)

\* QDate::fromString(s, Qt::ISODate)
DateFromIsoString(s) ==
    IF \/ Len(s) < 10
       \/ s[5] \in Digits
       \/ s[8] \in Digits
       \/ (Len(s) > 10 /\ s[11] \in Digits)
    THEN InvalidDate
    ELSE LET year == ToInt(Mid(s, 0, 4))
         IN  IF year <= 0 \/ year > 9999 THEN InvalidDate
             ELSE MkDate(year, ToInt(Mid(s, 5, 2)), ToInt(Mid(s, 8, 2)))

-----------------------------------------------------------------------------
(* Values exchanged with the collaborators *)

SUBTITLE_KEY == "subtitle"
COMPOSER_KEY == "composer"
LYRICIST_KEY == "lyricist"
COPYRIGHT_KEY == "copyright"
TRANSLATOR_KEY == "translator"
ARRANGER_KEY == "arranger"
CREATION_DATE_KEY == "creationDate"

MetaKeys == {SUBTITLE_KEY, COMPOSER_KEY, LYRICIST_KEY, COPYRIGHT_KEY,
             TRANSLATOR_KEY, ARRANGER_KEY, CREATION_DATE_KEY}

\* enum ViewMode / Ms::LayoutMode
ViewModes == {"PAGE", "FLOAT", "LINE", "SYSTEM"}

\* the null score handle
NullScore == [null |-> TRUE]

\* a default-constructed Meta
EmptyMeta ==
    [title |-> EmptyStr, subtitle |-> EmptyStr, composer |-> EmptyStr,
     lyricist |-> EmptyStr, copyright |-> EmptyStr, translator |-> EmptyStr,
     arranger |-> EmptyStr, creationDate |-> InvalidDate]

\* QRect(): the null rectangle
EmptyRect == [x |-> 0, w |-> 0]

\* one logged call on a collaborator
Call(fn, page, arg, num) == [fn |-> fn, page |-> page, arg |-> arg, num |-> num]

CountCalls(cs, fn) == Cardinality({i \in 1..Len(cs) : cs[i].fn = fn})

\* the value an operation returned: its type and, under that type's field, the value
NoRet == [kind |-> "void", meta |-> EmptyMeta, rect |-> EmptyRect, mode |-> ""]
RetMeta(meta) == [NoRet EXCEPT !.kind = "Meta", !.meta = meta]
RetRect(rect) == [NoRet EXCEPT !.kind = "QRectF", !.rect = rect]
RetMode(mode) == [NoRet EXCEPT !.kind = "ViewMode", !.mode = mode]

\* an invoked operation: its name and, under the parameter's name, its argument
Op(name) == [op |-> name, mode |-> "", opened |-> FALSE, frameRect |-> EmptyRect, sig |-> ""]
NoMeta == [none |-> TRUE]

-----------------------------------------------------------------------------
(* The score engine, as far as Notation uses it *)

\* Score::metaTag(key)
metaTag(score, key) == score.tags[key]

\* Score::setMetaTag(key, value)
setMetaTag(score, key, value) == [score EXCEPT !.tags[key] = value]

\* Score::title()
title(score) == score.title

\* Score::setLayoutMode(mode)
setLayoutMode(score, mode) == [score EXCEPT !.layoutMode = mode]

\* Score::layoutMode()
layoutMode(score) == score.layoutMode

\* ValCh<bool>::set(v): stores the value and sends it on the channel
ValChSet(v) ==
    /\ m_opened' = [m_opened EXCEPT !.val = v]
    /\ calls' = <<Call("m_opened.ch.send", 0, IF v THEN "true" ELSE "false", 0)>>

-----------------------------------------------------------------------------
(* Notation: pure parts *)

\* Notation::notifyAboutNotationChanged
notifyAboutNotationChanged == <<Call("m_notationChanged.notify", 0, "", 0)>>

\* variant: the dropChanged subscription is missing
Subscriptions_MissingDrop ==
    {"interaction.noteAdded", "interaction.dragChanged",
     "interaction.textEditingChanged",
     "midiInput.noteChanged", "style.styleChanged", "parts.partsChanged"}

\* the sub-component signals Notation::Notation subscribes to
Subscriptions ==
    {"interaction.noteAdded", "interaction.dragChanged",
     "interaction.textEditingChanged", "interaction.dropChanged",
     "midiInput.noteChanged", "style.styleChanged", "parts.partsChanged"}

\* every signal the sub-components raise
Signals ==
    {"interaction.noteAdded", "interaction.dragChanged",
     "interaction.textEditingChanged", "interaction.dropChanged",
     "interaction.selectionChanged",
     "midiInput.noteChanged", "style.styleChanged", "parts.partsChanged"}

\* Notation::metaInfo on an attached score
metaInfo(score) ==
    [title        |-> title(score),
     subtitle     |-> metaTag(score, SUBTITLE_KEY),
     composer     |-> metaTag(score, COMPOSER_KEY),
     lyricist     |-> metaTag(score, LYRICIST_KEY),
     copyright    |-> metaTag(score, COPYRIGHT_KEY),
     translator   |-> metaTag(score, TRANSLATOR_KEY),
     arranger     |-> metaTag(score, ARRANGER_KEY),
     creationDate |-> DateFromIsoString(metaTag(score, CREATION_DATE_KEY))]

\* Notation::setMetaInfo on an attached score
setMetaInfo(score, meta) ==
    LET s1 == setMetaTag(score, SUBTITLE_KEY, meta.subtitle)
        s2 == setMetaTag(s1, COMPOSER_KEY, meta.composer)
        s3 == setMetaTag(s2, LYRICIST_KEY, meta.lyricist)
        s4 == setMetaTag(s3, COPYRIGHT_KEY, meta.copyright)
        s5 == setMetaTag(s4, TRANSLATOR_KEY, meta.translator)
        s6 == setMetaTag(s5, ARRANGER_KEY, meta.arranger)
    IN  setMetaTag(s6, CREATION_DATE_KEY, DateToString(meta.creationDate))

\* variant: FLOAT as the default of a missing score
viewMode_WrongDefault(score) == IF score = NullScore THEN "FLOAT" ELSE layoutMode(score)

\* Notation::viewMode
viewMode(score) == IF score = NullScore THEN "PAGE" ELSE layoutMode(score)

-----------------------------------------------------------------------------
(* Painting.  Only the horizontal extent of a rectangle is modelled: the   *)
(* culling tests of paintPages read nothing else.                          *)

Left(r) == r.x
Right(r) == r.x + r.w
Translated(r, dx) == [x |-> r.x + dx, w |-> r.w]

\* Notation::paintElements
RECURSIVE paintElementsFrom(_, _, _)
paintElementsFrom(pageNo, elements, i) ==
    IF i > Len(elements) THEN <<>>
    ELSE IF ~elements[i].visible THEN paintElementsFrom(pageNo, elements, i + 1)
    ELSE << Call("element.itemDiscovered=false", pageNo, "", i),
            Call("painter.translate", pageNo, "elementPosition", i),
            Call("element.draw", pageNo, "", i),
            Call("painter.translate", pageNo, "-elementPosition", i) >>
         \o paintElementsFrom(pageNo, elements, i + 1)

paintElements(pageNo, elements) == paintElementsFrom(pageNo, elements, 1)

\* variant: the parity test inverted
paintPageBorder_ParityInverted(score, page) ==
    LET outer == << Call("painter.setBrush", page.no, "NoBrush", 0),
                    Call("painter.setPen", page.no, "borderColor", 0),
                    Call("painter.drawRect", page.no, "canvasBoundingRect", 0) >>
        inner == << Call("painter.setBrush", page.no, "NoBrush", 0),
                    Call("painter.setPen", page.no, "frameMarginColor", 0),
                    Call("painter.drawRect", page.no, "adjusted", 0) >>
        line  == << Call("painter.drawLine", page.no, "right", 0) >>
    IN  IF ~score.showPageborders THEN outer
        ELSE IF page.isOdd THEN outer \o inner \o line
        ELSE outer \o inner

\* Notation::paintPageBorder
paintPageBorder(score, page) ==
    LET outer == << Call("painter.setBrush", page.no, "NoBrush", 0),
                    Call("painter.setPen", page.no, "borderColor", 0),
                    Call("painter.drawRect", page.no, "canvasBoundingRect", 0) >>
        inner == << Call("painter.setBrush", page.no, "NoBrush", 0),
                    Call("painter.setPen", page.no, "frameMarginColor", 0),
                    Call("painter.drawRect", page.no, "adjusted", 0) >>
        line  == << Call("painter.drawLine", page.no, "right", 0) >>
    IN  IF ~score.showPageborders THEN outer
        ELSE IF ~page.isOdd THEN outer \o inner \o line
        ELSE outer \o inner

\* variant: pages left of the visible region are not skipped
RECURSIVE paintPages_NoLeftCull(_, _, _, _)
paintPages_NoLeftCull(score, frameRect, pages, paintBorders) ==
    IF pages = <<>> THEN <<>>
    ELSE LET page     == Head(pages)
             pageRect == Translated(page.abbox, page.pos)
         IN  IF Left(pageRect) > Right(frameRect)
             THEN <<>>
             ELSE (IF paintBorders THEN paintPageBorder(score, page) ELSE <<>>)
                  \o << Call("painter.translate", page.no, "pagePosition", page.pos),
                        Call("painter.fillRect", page.no, "pageColor", 0) >>
                  \o paintElements(page.no, page.elements)
                  \o << Call("painter.translate", page.no, "-pagePosition", 0 - page.pos) >>
                  \o paintPages_NoLeftCull(score, frameRect, Tail(pages), paintBorders)

\* Notation::paintPages
RECURSIVE paintPages(_, _, _, _)
paintPages(score, frameRect, pages, paintBorders) ==
    IF pages = <<>> THEN <<>>
    ELSE LET page     == Head(pages)
             pageRect == Translated(page.abbox, page.pos)
         IN  IF Right(pageRect) < Left(frameRect)
             THEN paintPages(score, frameRect, Tail(pages), paintBorders)
             ELSE IF Left(pageRect) > Right(frameRect)
             THEN <<>>
             ELSE (IF paintBorders THEN paintPageBorder(score, page) ELSE <<>>)
                  \o << Call("painter.translate", page.no, "pagePosition", page.pos),
                        Call("painter.fillRect", page.no, "pageColor", 0) >>
                  \o paintElements(page.no, page.elements)
                  \o << Call("painter.translate", page.no, "-pagePosition", 0 - page.pos) >>
                  \o paintPages(score, frameRect, Tail(pages), paintBorders)

\* variant: borders requested when printing instead of when not printing
paint_BordersWhenPrinting(score, frameRect) ==
    IF score.pages = <<>> THEN <<>>
    ELSE (IF layoutMode(score) \in {"LINE", "SYSTEM"}
          THEN paintPages(score, frameRect, <<Head(score.pages)>>, FALSE)
          ELSE paintPages(score, frameRect, score.pages, score.printing))
         \o << Call("interaction.paint", 0, "", 0) >>

\* variant: the overlay is drawn even when there is no page
paint_OverlayAlways(score, frameRect) ==
    (IF score.pages = <<>> THEN <<>>
     ELSE IF layoutMode(score) \in {"LINE", "SYSTEM"}
          THEN paintPages(score, frameRect, <<Head(score.pages)>>, FALSE)
          ELSE paintPages(score, frameRect, score.pages, ~score.printing))
    \o << Call("interaction.paint", 0, "", 0) >>

\* Notation::paint on an attached score
paint(score, frameRect) ==
    IF score.pages = <<>> THEN <<>>
    ELSE (IF layoutMode(score) \in {"LINE", "SYSTEM"}
          THEN paintPages(score, frameRect, <<Head(score.pages)>>, FALSE)
          ELSE paintPages(score, frameRect, score.pages, ~score.printing))
         \o << Call("interaction.paint", 0, "", 0) >>

\* Notation::previewRect on an attached score
previewRect(score) ==
    IF score.pages = <<>> THEN EmptyRect ELSE Head(score.pages).bbox

-----------------------------------------------------------------------------
(* Inputs *)

StringValues == {EmptyStr, <<"a">>}

DateValues == {InvalidDate, MkDate(2020, 1, 1), MkDate(2020, 11, 15)}

MetaValues ==
    [title : StringValues, subtitle : StringValues, composer : StringValues,
     lyricist : StringValues, copyright : StringValues, translator : StringValues,
     arranger : StringValues, creationDate : DateValues]

\* the metadata tags of a score file that holds the Meta `meta`
TagsOf(meta) ==
    [k \in MetaKeys |->
        CASE k = SUBTITLE_KEY -> meta.subtitle
          [] k = COMPOSER_KEY -> meta.composer
          [] k = LYRICIST_KEY -> meta.lyricist
          [] k = COPYRIGHT_KEY -> meta.copyright
          [] k = TRANSLATOR_KEY -> meta.translator
          [] k = ARRANGER_KEY -> meta.arranger
          [] k = CREATION_DATE_KEY -> DateToIsoString(meta.creationDate)]

MkScore(ttl, tags, mode, pages, printing, showPageborders) ==
    [null |-> FALSE, title |-> ttl, tags |-> tags, layoutMode |-> mode,
     pages |-> pages, printing |-> printing, showPageborders |-> showPageborders]

ElementLists ==
    { <<>>, <<[visible |-> TRUE]>>, <<[visible |-> FALSE], [visible |-> TRUE]>> }

\* page `no` (1-based) at horizontal position `pos`; parity alternates from `first`
MkPage(no, pos, firstOdd, elements) ==
    [no |-> no, pos |-> pos, abbox |-> [x |-> 0, w |-> 1], bbox |-> [x |-> 0, w |-> 1],
     isOdd |-> ((no % 2 = 1) = firstOdd), elements |-> elements]

PageLists ==
    UNION { { [i \in 1..n |-> MkPage(i, xs[i], firstOdd, els)] :
                xs \in [1..n -> 0..MaxCoord], firstOdd \in BOOLEAN, els \in ElementLists }
            : n \in 0..MaxPages }

FrameRects == { [x |-> x, w |-> w] : x \in 0..MaxCoord, w \in {0, 1} }

\* scores handed to the painting operations
PaintScores ==
    { MkScore(EmptyStr, TagsOf(EmptyMeta), mode, pages, printing, show) :
        mode \in ViewModes, pages \in PageLists, printing \in BOOLEAN, show \in BOOLEAN }

\* scores handed to the metadata operations
MetaScores ==
    { MkScore(ttl, TagsOf(meta), "PAGE", <<>>, FALSE, FALSE) :
        ttl \in StringValues,
        meta \in {EmptyMeta,
                  [EmptyMeta EXCEPT !.composer = <<"a">>, !.creationDate = MkDate(2020, 1, 1)]} }

\* scores handed to the life-cycle operations
LayoutResults == { <<>>, <<MkPage(1, 0, TRUE, <<>>)>> }

LifecycleScores ==
    { MkScore(EmptyStr, TagsOf(EmptyMeta), mode, pages, FALSE, FALSE) :
        mode \in ViewModes, pages \in LayoutResults }

ViewSizes == { [w |-> 0, h |-> 0], [w |-> 1, h |-> 1] }

\* what a read through a null score handle may yield when it does not trap
GarbageMetas == {EmptyMeta, [EmptyMeta EXCEPT !.title = <<"a">>]}
GarbageRects == {EmptyRect, [x |-> 1, w |-> 1]}

\* Score::doLayout(): the engine rebuilds the page list
doLayout(score) == { [score EXCEPT !.pages = p] : p \in LayoutResults }

-----------------------------------------------------------------------------
(* Operations *)

\* Notation::setScore, as the calls it makes
setScoreCalls(score) ==
    IF score # NullScore
    THEN << Call("interaction.init", 0, "", 0), Call("playback.init", 0, "", 0) >>
    ELSE <<>>

\* Notation::Notation(score)
Construct(score) ==
    /\ m_opened = [val |-> FALSE]
    /\ m_viewSize = [w |-> 0 - 1, h |-> 0 - 1]
    /\ m_score = score
    /\ calls = setScoreCalls(score)
    /\ lastOp = Op("Notation")
    /\ ret = NoRet
    /\ written = NoMeta
    /\ crashed = FALSE

SetScore(score) ==
    /\ ~crashed
    /\ lastOp' = Op("setScore")
    /\ m_score' = score
    /\ calls' = setScoreCalls(score)
    /\ ret' = NoRet
    /\ written' = NoMeta
    /\ UNCHANGED <<m_opened, m_viewSize, crashed>>

MetaInfo ==
    /\ ~crashed
    /\ lastOp' = Op("metaInfo")
    /\ calls' = <<>>
    /\ IF m_score = NullScore
       THEN \/ crashed' = TRUE /\ ret' = NoRet
            \/ crashed' = FALSE /\ ret' \in {RetMeta(g) : g \in GarbageMetas}
       ELSE crashed' = FALSE /\ ret' = RetMeta(metaInfo(m_score))
    /\ UNCHANGED <<m_score, m_opened, m_viewSize, written>>

SetMetaInfo(meta) ==
    /\ ~crashed
    /\ lastOp' = Op("setMetaInfo")
    /\ calls' = <<>>
    /\ ret' = NoRet
    /\ IF m_score = NullScore
       THEN /\ crashed' \in BOOLEAN
            /\ UNCHANGED <<m_score, written>>
       ELSE /\ crashed' = FALSE
            /\ m_score' = setMetaInfo(m_score, meta)
            /\ written' = meta
    /\ UNCHANGED <<m_opened, m_viewSize>>

SetViewSize(vs) ==
    /\ ~crashed
    /\ lastOp' = Op("setViewSize")
    /\ m_viewSize' = vs
    /\ calls' = <<>>
    /\ ret' = NoRet
    /\ UNCHANGED <<m_score, m_opened, written, crashed>>

\* variant: the notification is sent before the layout is done
SetViewMode_NotifyFirst(mode) ==
    /\ ~crashed
    /\ lastOp' = [Op("setViewMode") EXCEPT !.mode = mode]
    /\ ret' = NoRet
    /\ IF m_score = NullScore
       THEN /\ calls' = <<>>
            /\ UNCHANGED m_score
       ELSE /\ m_score' \in doLayout(setLayoutMode(m_score, mode))
            /\ calls' = << Call("score.setLayoutMode", 0, mode, 0) >>
                        \o notifyAboutNotationChanged
                        \o << Call("score.doLayout", 0, "", 0) >>
    /\ UNCHANGED <<m_opened, m_viewSize, written, crashed>>

SetViewMode(mode) ==
    /\ ~crashed
    /\ lastOp' = [Op("setViewMode") EXCEPT !.mode = mode]
    /\ ret' = NoRet
    /\ IF m_score = NullScore
       THEN /\ calls' = <<>>
            /\ UNCHANGED m_score
       ELSE /\ m_score' \in doLayout(setLayoutMode(m_score, mode))
            /\ calls' = << Call("score.setLayoutMode", 0, mode, 0),
                           Call("score.doLayout", 0, "", 0) >>
                        \o notifyAboutNotationChanged
    /\ UNCHANGED <<m_opened, m_viewSize, written, crashed>>

ViewMode ==
    /\ ~crashed
    /\ lastOp' = Op("viewMode")
    /\ calls' = <<>>
    /\ ret' = RetMode(viewMode(m_score))
    /\ UNCHANGED <<m_score, m_opened, m_viewSize, written, crashed>>

PreviewRect ==
    /\ ~crashed
    /\ lastOp' = Op("previewRect")
    /\ calls' = <<>>
    /\ IF m_score = NullScore
       THEN \/ crashed' = TRUE /\ ret' = NoRet
            \/ crashed' = FALSE /\ ret' \in {RetRect(g) : g \in GarbageRects}
       ELSE crashed' = FALSE /\ ret' = RetRect(previewRect(m_score))
    /\ UNCHANGED <<m_score, m_opened, m_viewSize, written>>

Paint(frameRect) ==
    /\ ~crashed
    /\ lastOp' = [Op("paint") EXCEPT !.frameRect = frameRect]
    /\ ret' = NoRet
    /\ IF m_score = NullScore
       THEN /\ crashed' \in BOOLEAN
            /\ calls' = <<>>
       ELSE /\ crashed' = FALSE
            /\ calls' = paint(m_score, frameRect)
    /\ UNCHANGED <<m_score, m_opened, m_viewSize, written>>

\* variant: no test for an unchanged value
SetOpened_NoDedup(opened) ==
    /\ ~crashed
    /\ lastOp' = [Op("setOpened") EXCEPT !.opened = opened]
    /\ ret' = NoRet
    /\ ValChSet(opened)
    /\ UNCHANGED <<m_score, m_viewSize, written, crashed>>

SetOpened(opened) ==
    /\ ~crashed
    /\ lastOp' = [Op("setOpened") EXCEPT !.opened = opened]
    /\ ret' = NoRet
    /\ IF m_opened.val = opened
       THEN /\ calls' = <<>>
            /\ UNCHANGED m_opened
       ELSE ValChSet(opened)
    /\ UNCHANGED <<m_score, m_viewSize, written, crashed>>

\* a sub-component raises `sig`; the callbacks the constructor registered run
OnNotify(sig) ==
    /\ ~crashed
    /\ lastOp' = [Op("signal") EXCEPT !.sig = sig]
    /\ ret' = NoRet
    /\ calls' = IF sig \in Subscriptions THEN notifyAboutNotationChanged ELSE <<>>
    /\ UNCHANGED <<m_score, m_opened, m_viewSize, written, crashed>>

-----------------------------------------------------------------------------
(* Specifications *)

\* life cycle, view state and notifications
Init == \E score \in LifecycleScores \cup {NullScore} : Construct(score)

Next ==
    \/ \E score \in LifecycleScores \cup {NullScore} : SetScore(score)
    \/ \E mode \in ViewModes : SetViewMode(mode)
    \/ ViewMode
    \/ \E opened \in BOOLEAN : SetOpened(opened)
    \/ \E vs \in ViewSizes : SetViewSize(vs)
    \/ \E sig \in Signals : OnNotify(sig)
    \/ MetaInfo
    \/ PreviewRect

Spec == Init /\ [][Next]_vars

\* metadata
InitMeta == \E score \in MetaScores : Construct(score)

NextMeta ==
    \/ \E meta \in MetaValues : SetMetaInfo(meta)
    \/ MetaInfo

SpecMeta == InitMeta /\ [][NextMeta]_vars

\* painting
InitPaint == \E score \in PaintScores \cup {NullScore} : Construct(score)

NextPaint ==
    \/ \E frameRect \in FrameRects : Paint(frameRect)
    \/ PreviewRect

SpecPaint == InitPaint /\ [][NextPaint]_vars

-----------------------------------------------------------------------------
(* Properties: metadata *)

\* C1: after setMetaInfo(m) with a valid creation date, metaInfo() returns a
\* Meta equal to m in every field.
C1_MetaRoundTrip ==
    (lastOp.op = "metaInfo" /\ ~crashed /\ written # NoMeta /\ written.creationDate.valid)
        => ret.meta = written

\* the fields the two functions do carry through: the six text tags
C1_TextTagsRoundTrip ==
    (lastOp.op = "metaInfo" /\ ~crashed /\ written # NoMeta)
        => /\ ret.meta.subtitle = written.subtitle
           /\ ret.meta.composer = written.composer
           /\ ret.meta.lyricist = written.lyricist
           /\ ret.meta.copyright = written.copyright
           /\ ret.meta.translator = written.translator
           /\ ret.meta.arranger = written.arranger

\* C3: with no score attached, metaInfo() returns an empty Meta and
\* previewRect() an empty rectangle, and neither call fails.
C3_AbsentScoreDefaults ==
    (m_score = NullScore /\ lastOp.op \in {"metaInfo", "previewRect"})
        => /\ ~crashed
           /\ lastOp.op = "metaInfo" => ret = RetMeta(EmptyMeta)
           /\ lastOp.op = "previewRect" => ret = RetRect(EmptyRect)

-----------------------------------------------------------------------------
(* Properties: life cycle and notifications *)

NotifyCount(cs) == CountCalls(cs, "m_notationChanged.notify")
OpenedSendCount(cs) == CountCalls(cs, "m_opened.ch.send")

\* C2: setOpened(x) while the value is x sends nothing and keeps the value;
\* setOpened(!x) sends the change exactly once and makes the value !x.
C2_OpenedDedup ==
    [][ lastOp'.op = "setOpened" =>
          IF m_opened.val = lastOp'.opened
          THEN m_opened' = m_opened /\ OpenedSendCount(calls') = 0
          ELSE m_opened'.val = lastOp'.opened /\ OpenedSendCount(calls') = 1 ]_vars

C2_Witness ==
    /\ lastOp.op = "setOpened"
    /\ lastOp.opened = TRUE
    /\ m_opened.val = TRUE
    /\ calls = <<>>

\* C6: setViewMode(mode) does nothing without a score; with a score it sets the
\* layout mode, then lays out, then notifies once, and viewMode() is mode.
C6_SetViewMode ==
    [][ lastOp'.op = "setViewMode" =>
          IF m_score = NullScore
          THEN m_score' = NullScore /\ calls' = <<>>
          ELSE /\ Len(calls') = 3
               /\ calls'[1].fn = "score.setLayoutMode" /\ calls'[1].arg = lastOp'.mode
               /\ calls'[2].fn = "score.doLayout"
               /\ calls'[3].fn = "m_notationChanged.notify"
               /\ m_score' # NullScore
               /\ m_score'.layoutMode = lastOp'.mode
               /\ viewMode(m_score') = lastOp'.mode ]_vars

C6_Witness ==
    /\ lastOp.op = "setViewMode"
    /\ lastOp.mode = "LINE"
    /\ m_score # NullScore
    /\ viewMode(m_score) = "LINE"
    /\ NotifyCount(calls) = 1

\* C8: whenever no score is attached, viewMode() returns PAGE.
C8_ViewModeDefault ==
    (lastOp.op = "viewMode" /\ m_score = NullScore) => ret = RetMode("PAGE")

C8_Witness ==
    /\ lastOp.op = "viewMode"
    /\ m_score = NullScore
    /\ ret = RetMode("PAGE")
    /\ m_opened.val = TRUE

ClaimedSignals ==
    {"interaction.noteAdded", "interaction.dragChanged",
     "interaction.textEditingChanged", "interaction.dropChanged",
     "midiInput.noteChanged", "style.styleChanged", "parts.partsChanged"}

\* C10: each firing of a subscribed signal emits notationChanged exactly once,
\* and notationChanged is emitted only for such a firing or for a setViewMode
\* call with a score attached.
C10_FanIn ==
    [][ /\ (lastOp'.op = "signal" /\ lastOp'.sig \in ClaimedSignals)
              => NotifyCount(calls') = 1
        /\ NotifyCount(calls') > 0
              => \/ lastOp'.op = "signal" /\ lastOp'.sig \in ClaimedSignals
                 \/ lastOp'.op = "setViewMode" /\ m_score # NullScore ]_vars

C10_Witness ==
    /\ lastOp.op = "signal"
    /\ lastOp.sig = "interaction.dropChanged"
    /\ NotifyCount(calls) = 1

-----------------------------------------------------------------------------
(* Properties: painting *)

PageRect(page) == Translated(page.abbox, page.pos)
EntirelyLeft(page, frameRect) == Right(PageRect(page)) < Left(frameRect)
EntirelyRight(page, frameRect) == Left(PageRect(page)) > Right(frameRect)

\* the pages a paint touched, and those it drew a border or a background for
CallsOn(cs, no) == {i \in 1..Len(cs) : cs[i].page = no}
Visited(cs) == {cs[i].page : i \in 1..Len(cs)} \ {0}
Filled(cs, no) == \E i \in CallsOn(cs, no) : cs[i].fn = "painter.fillRect"
BorderFns == {"painter.setBrush", "painter.setPen", "painter.drawRect", "painter.drawLine"}
Bordered(cs, no) == \E i \in CallsOn(cs, no) : cs[i].fn \in BorderFns
LineCount(cs, no) == Cardinality({i \in CallsOn(cs, no) : cs[i].fn = "painter.drawLine"})
RectCount(cs, no) == Cardinality({i \in CallsOn(cs, no) : cs[i].fn = "painter.drawRect"})

StrictlyIncreasing(pages) ==
    \A i, j \in 1..Len(pages) :
        i < j => /\ Left(PageRect(pages[i])) < Left(PageRect(pages[j]))
                 /\ Right(PageRect(pages[i])) < Right(PageRect(pages[j]))

Painted == lastOp.op = "paint" /\ m_score # NullScore /\ ~crashed

\* C4: with pages of strictly increasing horizontal extents, paint() paints no
\* page entirely left of the visible region, paints neither the first page
\* entirely right of it nor any later page, and visits pages in layout order.
C4_PageCulling ==
    (Painted /\ StrictlyIncreasing(m_score.pages)) =>
        LET pages == m_score.pages
            frame == lastOp.frameRect
        IN  /\ \A i \in 1..Len(pages) :
                  EntirelyLeft(pages[i], frame) => pages[i].no \notin Visited(calls)
            /\ \A i, j \in 1..Len(pages) :
                  (EntirelyRight(pages[i], frame) /\ i <= j)
                      => pages[j].no \notin Visited(calls)
            /\ \A a, b \in 1..Len(calls) :
                  (a < b /\ calls[a].page # 0 /\ calls[b].page # 0)
                      => calls[a].page <= calls[b].page

C4_Witness ==
    /\ Painted
    /\ StrictlyIncreasing(m_score.pages)
    /\ Len(m_score.pages) = 3
    /\ EntirelyLeft(m_score.pages[1], lastOp.frameRect)
    /\ EntirelyRight(m_score.pages[3], lastOp.frameRect)
    /\ Visited(calls) = {2}

\* C5: for a score with pages, LINE and SYSTEM modes consider only the first
\* page and draw no border; FLOAT and PAGE modes consider every page and draw
\* a border for each painted page exactly when the score is not printing.
C5_ViewModePolicy ==
    (Painted /\ m_score.pages # <<>>) =>
        LET pages == m_score.pages
            frame == lastOp.frameRect
        IN  IF m_score.layoutMode \in {"LINE", "SYSTEM"}
            THEN /\ Visited(calls) \subseteq {pages[1].no}
                 /\ \A i \in 1..Len(calls) : calls[i].fn \notin BorderFns
                 /\ (~EntirelyLeft(pages[1], frame) /\ ~EntirelyRight(pages[1], frame))
                        => Filled(calls, pages[1].no)
            ELSE /\ \A j \in 1..Len(pages) :
                        ( /\ ~EntirelyLeft(pages[j], frame)
                          /\ \A i \in 1..j : ~EntirelyRight(pages[i], frame) )
                            => Filled(calls, pages[j].no)
                 /\ \A j \in 1..Len(pages) :
                        Filled(calls, pages[j].no)
                            => (Bordered(calls, pages[j].no) <=> ~m_score.printing)

C5_Witness ==
    /\ Painted
    /\ m_score.layoutMode = "PAGE"
    /\ ~m_score.printing
    /\ Len(m_score.pages) = 3
    /\ \A j \in 1..3 : Filled(calls, j) /\ Bordered(calls, j)

\* C7: paint() on a score without pages makes no call on the surface or on
\* the interaction overlay, and returns.
C7_EmptyPagesNoDrawing ==
    (Painted /\ m_score.pages = <<>>) => calls = <<>>

C7_Witness ==
    /\ Painted
    /\ m_score.pages = <<>>
    /\ m_score.layoutMode = "LINE"
    /\ calls = <<>>

\* C9: with showPageborders set, the border of an even page takes exactly one
\* more line draw than the border of an odd page; with it unset, only the
\* outer frame rectangle is drawn, for either parity.
C9_EvenPageRule ==
    Painted =>
        LET pages    == m_score.pages
            bordered == {j \in 1..Len(pages) : Bordered(calls, pages[j].no)}
        IN  IF m_score.showPageborders
            THEN \A e, o \in bordered :
                    (~pages[e].isOdd /\ pages[o].isOdd)
                        => LineCount(calls, pages[e].no) = LineCount(calls, pages[o].no) + 1
            ELSE \A j \in bordered :
                    /\ RectCount(calls, pages[j].no) = 1
                    /\ LineCount(calls, pages[j].no) = 0
                    /\ \A i \in CallsOn(calls, pages[j].no) :
                          calls[i].fn = "painter.drawRect" => calls[i].arg = "canvasBoundingRect"

C9_Witness ==
    /\ Painted
    /\ m_score.showPageborders
    /\ \E e, o \in 1..Len(m_score.pages) :
          /\ ~m_score.pages[e].isOdd /\ m_score.pages[o].isOdd
          /\ Bordered(calls, e) /\ Bordered(calls, o)
          /\ LineCount(calls, e) = 1 /\ LineCount(calls, o) = 0

====
